---- MODULE Spec2Model ----
(***************************************************************************)
(* rebuild_card_data.py: the CSV-to-JSON rebuild of the card data.         *)
(*                                                                         *)
(* A Python str is a sequence of one-character strings, so that strip,     *)
(* lower, upper, capitalize, split, join and the regular expressions are   *)
(* computed character by character.  Python's None is the value None below. *)
(***************************************************************************)
EXTENDS Integers, Sequences, FiniteSets, TLC

VARIABLES
    pc,        \* where main (or the function called on its own) stands
    err,       \* what aborted the run: "none", "exception", or the file whose I/O failed
    images,    \* the dict load_images builds
    imgRead,   \* the image rows the reader has handed out so far
    rowsRead,  \* the primary rows the reader has handed out so far
    cards,     \* the list cards of main
    output,    \* the output file: opened for writing, dumped, and the array dumped
    arg,       \* the argument of the last call of parse_csv_row or extract_keywords
    ret        \* how that call ended

vars == <<pc, err, images, imgRead, rowsRead, cards, output, arg, ret>>

(* ------------------------------ bounds -------------------------------- *)

\* longest generated cell value (Power, Domain, Tags, ...) in characters
MaxFieldLen == 3
\* most tokens concatenated into one rules text
MaxSpans == 2
\* most rows read from the primary CSV in one run
MaxRows == 2
\* most rows read from the image CSV in one run
MaxImageRows == 2

(* --------------------------- Python values ---------------------------- *)

\* None: what csv.DictReader stores for a cell that a short row lacks.
\* Its one element is not a character, so it differs from every str.
None == <<"None">>

UpperLetters == <<"A", "B", "C", "D", "E", "F", "G", "H", "I", "J", "K", "L", "M",
                  "N", "O", "P", "Q", "R", "S", "T", "U", "V", "W", "X", "Y", "Z">>

LowerLetters == <<"a", "b", "c", "d", "e", "f", "g", "h", "i", "j", "k", "l", "m",
                  "n", "o", "p", "q", "r", "s", "t", "u", "v", "w", "x", "y", "z">>

Digits == <<"0", "1", "2", "3", "4", "5", "6", "7", "8", "9">>

\* position of c in letters, 0 when it is not there
IndexIn(c, letters) ==
    IF \E i \in 1..Len(letters) : letters[i] = c
    THEN CHOOSE i \in 1..Len(letters) : letters[i] = c
    ELSE 0

LowerChar(c) ==
    LET i == IndexIn(c, UpperLetters) IN IF i = 0 THEN c ELSE LowerLetters[i]

UpperChar(c) ==
    LET i == IndexIn(c, LowerLetters) IN IF i = 0 THEN c ELSE UpperLetters[i]

\* str.lower()
Lower(s) == [i \in 1..Len(s) |-> LowerChar(s[i])]

\* str.upper()
Upper(s) == [i \in 1..Len(s) |-> UpperChar(s[i])]

\* str.capitalize(): first character upper case, the rest lower case
Capitalize(s) ==
    IF s = <<>> THEN <<>> ELSE <<UpperChar(s[1])>> \o Lower(Tail(s))

\* \s of the regular expressions and the whitespace of str.strip()
IsSpace(c) == c \in {" ", "\t", "\n"}

\* \d of the regular expressions
IsDigit(c) == IndexIn(c, Digits) # 0

SetMin(S) == CHOOSE x \in S : \A y \in S : x <= y

SetMax(S) == CHOOSE x \in S : \A y \in S : y <= x

\* str.strip()
Strip(s) ==
    LET keep == {i \in 1..Len(s) : ~IsSpace(s[i])}
    IN  IF keep = {} THEN <<>> ELSE SubSeq(s, SetMin(keep), SetMax(keep))

\* x in list
InList(x, list) == \E i \in 1..Len(list) : list[i] = x

\* s.startswith(prefix, at i)
StartsWithAt(s, i, prefix) ==
    /\ i + Len(prefix) - 1 <= Len(s)
    /\ \A j \in 1..Len(prefix) : s[i + j - 1] = prefix[j]

\* sub in s
Contains(s, sub) == \E i \in 1..(Len(s) - Len(sub) + 1) : StartsWithAt(s, i, sub)

\* sep.join(parts)
RECURSIVE Join(_, _)
Join(sep, parts) ==
    IF parts = <<>> THEN <<>>
    ELSE IF Len(parts) = 1 THEN parts[1]
    ELSE parts[1] \o sep \o Join(sep, Tail(parts))

\* s.split(','): the pieces between the commas, empty pieces kept
RECURSIVE SplitComma(_)
SplitComma(s) ==
    LET commas == {i \in 1..Len(s) : s[i] = ","}
    IN  IF commas = {} THEN <<s>>
        ELSE LET c == SetMin(commas)
             IN  <<SubSeq(s, 1, c - 1)>> \o SplitComma(SubSeq(s, c + 1, Len(s)))

\* all sequences over alphabet of length at most n
StringsUpTo(alphabet, n) == UNION {[1..k -> alphabet] : k \in 0..n}

(* ------------------------- extract_keywords --------------------------- *)

known_keywords ==
  << <<"A", "c", "c", "e", "l", "e", "r", "a", "t", "e">>, <<"A", "c", "t", "i", "o", "n">>, <<"R", "e", "a", "c", "t", "i", "o", "n">>, <<"H", "i", "d", "d", "e", "n">>, <<"V", "i", "s", "i", "o", "n">>, <<"L", "e", "g", "i", "o", "n">>,
     <<"A", "s", "s", "a", "u", "l", "t">>, <<"D", "e", "f", "e", "n", "d", "e", "r">>, <<"E", "l", "u", "s", "i", "v", "e">>, <<"F", "e", "a", "r", "s", "o", "m", "e">>, <<"M", "i", "g", "h", "t", "y">>, <<"T", "e", "m", "p", "o", "r", "a", "r", "y">>,
     <<"Q", "u", "i", "c", "k", " ", "A", "t", "t", "a", "c", "k">>, <<"O", "v", "e", "r", "w", "h", "e", "l", "m">>, <<"L", "i", "f", "e", "s", "t", "e", "a", "l">>, <<"B", "a", "r", "r", "i", "e", "r">>, <<"S", "p", "e", "l", "l", "s", "h", "i", "e", "l", "d">>,
     <<"R", "e", "g", "e", "n", "e", "r", "a", "t", "i", "o", "n">>, <<"T", "o", "u", "g", "h">>, <<"C", "h", "a", "l", "l", "e", "n", "g", "e", "r">>, <<"S", "c", "o", "u", "t">>, <<"F", "u", "r", "y">>, <<"A", "t", "t", "u", "n", "e">>,
     <<"D", "e", "e", "p">>, <<"E", "p", "h", "e", "m", "e", "r", "a", "l">>, <<"L", "a", "s", "t", " ", "B", "r", "e", "a", "t", "h">>, <<"N", "e", "x", "u", "s", " ", "S", "t", "r", "i", "k", "e">>, <<"P", "l", "a", "y">>, <<"S", "t", "r", "i", "k", "e">>,
     <<"S", "u", "p", "p", "o", "r", "t">>, <<"V", "u", "l", "n", "e", "r", "a", "b", "l", "e">>, <<"C", "a", "p", "t", "u", "r", "e">>, <<"F", "r", "o", "s", "t", "b", "i", "t", "e">>, <<"I", "m", "m", "o", "b", "i", "l", "e">>, <<"R", "e", "c", "a", "l", "l">>,
     <<"S", "i", "l", "e", "n", "c", "e">>, <<"S", "t", "u", "n">>, <<"O", "b", "l", "i", "t", "e", "r", "a", "t", "e">>, <<"R", "a", "l", "l", "y">>, <<"E", "n", "l", "i", "g", "h", "t", "e", "n", "e", "d">>, <<"R", "e", "p", "u", "t", "a", "t", "i", "o", "n">>,
     <<"L", "u", "r", "k">>, <<"P", "r", "e", "d", "i", "c", "t">>, <<"I", "n", "v", "o", "k", "e">>, <<"B", "e", "h", "o", "l", "d">>, <<"A", "u", "g", "m", "e", "n", "t">>, <<"I", "m", "p", "a", "c", "t">>, <<"F", "o", "r", "m", "i", "d", "a", "b", "l", "e">>,
     <<"E", "q", "u", "i", "p", "m", "e", "n", "t">>, <<"A", "t", "t", "a", "c", "h">>, <<"H", "a", "l", "l", "o", "w", "e", "d">>, <<"E", "v", "o", "l", "v", "e">>, <<"H", "u", "s", "k">>, <<"B", "o", "o", "n">>, <<"F", "l", "o", "w">> >>

\* re.findall(r'\[([^\]]+)\]', text) from position i on: the inner texts of the
\* spans '[' .. first following ']' that hold at least one character
RECURSIVE bracket_matches(_, _)
bracket_matches(text, i) ==
    LET opens == {j \in i..Len(text) : text[j] = "["}
    IN  IF opens = {} THEN <<>>
        ELSE LET j == SetMin(opens)
                 closes == {k \in (j + 1)..Len(text) : text[k] = "]"}
             IN  IF closes = {} THEN <<>>
                 ELSE LET k == SetMin(closes)
                      IN  IF k = j + 1
                          THEN bracket_matches(text, j + 1)
                          ELSE <<SubSeq(text, j + 1, k - 1)>> \o bracket_matches(text, k + 1)

\* re.sub(r'\s+\d+$', '', kw): drop a final run of digits with the whitespace before it
base_keyword(kw) ==
    LET nondigits == {i \in 1..Len(kw) : ~IsDigit(kw[i])}
        d == IF nondigits = {} THEN 0 ELSE SetMax(nondigits)
        nonspace == {i \in 1..d : ~IsSpace(kw[i])}
        w == IF nonspace = {} THEN 0 ELSE SetMax(nonspace)
    IN  IF d < Len(kw) /\ w < d THEN SubSeq(kw, 1, w) ELSE kw

\* the condition under which the loop over bracket_matches appends kw
bracket_is_new(kw, keywords) ==
    LET base_kw == base_keyword(kw)
    IN  base_kw # <<>> /\ ~InList(base_kw, keywords)

\* the loop over bracket_matches: kw = match.strip(), appended when new
RECURSIVE bracket_loop(_, _)
bracket_loop(matches, keywords) ==
    IF matches = <<>> THEN keywords
    ELSE LET kw == Strip(Head(matches))
         IN  bracket_loop(Tail(matches),
                          IF bracket_is_new(kw, keywords) THEN Append(keywords, kw) ELSE keywords)

\* (?:\s+\d+)?\] matched at position q of text
suffix_and_close(text, q) ==
    \/ q <= Len(text) /\ text[q] = "]"
    \/ \E a \in (q + 1)..Len(text) : \E b \in (a + 1)..Len(text) :
          /\ \A i \in q..(a - 1) : IsSpace(text[i])
          /\ \A i \in a..(b - 1) : IsDigit(text[i])
          /\ text[b] = "]"

\* re.search(rf'\[{kw}(?:\s+\d+)?\]|\({kw}', text, re.IGNORECASE)
keyword_usage(kw, text) ==
    LET low == Lower(text)
        k == Lower(kw)
    IN  \E p \in 1..Len(text) :
          \/ text[p] = "[" /\ StartsWithAt(low, p + 1, k)
                           /\ suffix_and_close(text, p + 1 + Len(k))
          \/ text[p] = "(" /\ StartsWithAt(low, p + 1, k)

\* the loop over known_keywords, from entry n on
RECURSIVE known_loop(_, _, _, _)
known_loop(n, text, text_lower, keywords) ==
    IF n > Len(known_keywords) THEN keywords
    ELSE LET kw == known_keywords[n]
             add == /\ Contains(text_lower, Lower(kw))
                    /\ ~InList(kw, keywords)
                    /\ keyword_usage(kw, text)
         IN  known_loop(n + 1, text, text_lower,
                        IF add THEN Append(keywords, kw) ELSE keywords)

extract_keywords(text) ==
    known_loop(1, text, Lower(text), bracket_loop(bracket_matches(text, 1), <<>>))

(* --------------------------- parse_csv_row ---------------------------- *)

\* row.get(key, ''): the default only when the header lacks the column
Get(row, key) == IF key \in DOMAIN row THEN row[key] ELSE <<>>

\* the value of a stats field: None, a float or a str
PyNone == [t |-> "None", num |-> 0, str |-> <<>>]

PyFloat(n) == [t |-> "float", num |-> n, str |-> <<>>]

PyStr(s) == [t |-> "str", num |-> 0, str |-> s]

\* the value of a run of decimal digits
RECURSIVE DigitsValue(_)
DigitsValue(s) ==
    IF s = <<>> THEN 0
    ELSE 10 * DigitsValue(SubSeq(s, 1, Len(s) - 1)) + (IndexIn(s[Len(s)], Digits) - 1)

\* float(s) does not raise ValueError.  Of the literals float() accepts, the
\* generated cell values can spell only a run of digits with an optional sign.
FloatParses(s) ==
    LET body == IF s # <<>> /\ s[1] \in {"-", "+"} THEN Tail(s) ELSE s
    IN  body # <<>> /\ \A i \in 1..Len(body) : IsDigit(body[i])

\* float(s), where it parses
FloatValue(s) ==
    IF s[1] = "-" THEN 0 - DigitsValue(Tail(s))
    ELSE IF s[1] = "+" THEN DigitsValue(Tail(s))
    ELSE DigitsValue(s)

\* energy_val and might_val: float(x) if x and x not in ['', '-'] else None,
\* None on ValueError
parse_stat(x) ==
    IF x # <<>> /\ x # <<"-">>
    THEN IF FloatParses(x) THEN PyFloat(FloatValue(x)) ELSE PyNone
    ELSE PyNone

\* power.upper().replace('C', '') == ''
all_c(power) == \A i \in 1..Len(power) : UpperChar(power[i]) = "C"

\* parse_power with the run of C's counted instead of kept as text
parse_power_counting(power) ==
    IF power # <<>> /\ power # <<"-">>
    THEN IF all_c(power) THEN PyFloat(Len(power))
         ELSE IF FloatParses(power) THEN PyFloat(FloatValue(power))
         ELSE PyStr(power)
    ELSE PyNone

\* power_val
parse_power(power) ==
    IF power # <<>> /\ power # <<"-">>
    THEN IF all_c(power) THEN PyStr(Upper(power))
         ELSE IF FloatParses(power) THEN PyFloat(FloatValue(power))
         ELSE PyStr(power)
    ELSE PyNone

\* x is truthy and x.lower() not in ['', 'nan']
present(x) == x # <<>> /\ Lower(x) # <<>> /\ Lower(x) # <<"n", "a", "n">>

\* domain_of without the capitalize()
domain_of_as_typed(row, key) ==
    IF Get(row, key) # None /\ Get(row, key) # <<>>
    THEN Strip(Get(row, key))
    ELSE <<>>

\* row.get(key, '').strip().capitalize() if row.get(key) else ''
domain_of(row, key) ==
    IF Get(row, key) # None /\ Get(row, key) # <<>>
    THEN Capitalize(Strip(Get(row, key)))
    ELSE <<>>

\* the list domains, joined, or 'Colorless'
domain_str(row) ==
    LET domain1 == domain_of(row, "Domain 1")
        domain2 == domain_of(row, "Domain 2")
        domains == (IF present(domain1) THEN <<domain1>> ELSE <<>>)
                   \o (IF present(domain2) THEN <<domain2>> ELSE <<>>)
    IN  IF domains # <<>> THEN Join(<<",", " ">>, domains) ELSE <<"C", "o", "l", "o", "r", "l", "e", "s", "s">>

\* the list subtypes, from 'Subtype i' on
RECURSIVE subtypes_from(_, _)
subtypes_from(row, i) ==
    IF i > 5 THEN <<>>
    ELSE LET subtype == Strip(Get(row, <<"Subtype 1", "Subtype 2", "Subtype 3",
                                         "Subtype 4", "Subtype 5">>[i]))
         IN  (IF present(subtype) THEN <<Lower(subtype)>> ELSE <<>>)
             \o subtypes_from(row, i + 1)

type_line(row) ==
    LET t == Lower(Strip(Get(row, "types")))
        card_type == IF t = <<>> THEN <<"u", "n", "i", "t">> ELSE t
        subtypes == subtypes_from(row, 1)
    IN  IF subtypes # <<>>
        THEN card_type \o <<" ", "-", " ">> \o Join(<<",", " ">>, subtypes)
        ELSE card_type

\* [t.strip() for t in tags.split(',') if t.strip()]
RECURSIVE strip_nonempty(_)
strip_nonempty(parts) ==
    IF parts = <<>> THEN <<>>
    ELSE (IF Strip(Head(parts)) # <<>> THEN <<Strip(Head(parts))>> ELSE <<>>)
         \o strip_nonempty(Tail(parts))

\* the 'tags' entry of card_data, when the code adds one
tags_entry(row) ==
    LET tags == Strip(Get(row, "Tags"))
    IN  IF present(tags)
        THEN [tags |-> strip_nonempty(SplitComma(tags))]
        ELSE <<>>

\* the 'supertypes' entry of card_data, when the code adds one
supertypes_entry(row) ==
    LET supertypes == Strip(Get(row, "supertypes"))
    IN  IF present(supertypes)
        THEN [supertypes |-> Lower(supertypes)]
        ELSE <<>>

\* the columns read with row.get(key, '').strip() after the two required ones
StrippedColumns ==
    {"types", "Subtype 1", "Subtype 2", "Subtype 3", "Subtype 4", "Subtype 5",
     "supertypes", "Energy", "Might", "Power", "Description", "ALT TEXT",
     "Rarity", "Tags"}

\* card_data as returned on the last line
card_data(row) ==
    LET description == Strip(Get(row, "Description"))
    IN  [id |-> Strip(Get(row, "Collector Number")),
         name |-> Strip(Get(row, "Name")),
         rarity |-> Lower(Strip(Get(row, "Rarity"))),
         domain |-> domain_str(row),
         type_line |-> type_line(row),
         stats |-> [energy |-> parse_stat(Strip(Get(row, "Energy"))),
                    might |-> parse_stat(Strip(Get(row, "Might"))),
                    power |-> parse_power(Strip(Get(row, "Power")))],
         rules_text |-> [raw |-> description,
                         keywords |-> extract_keywords(description)]]
        @@ supertypes_entry(row) @@ tags_entry(row)

\* how a call ends: an exception (None has no attribute 'strip'), return None,
\* or return card_data
Raised == [kind |-> "raise"]

ReturnedNone == [kind |-> "None"]

Returned(card) == [kind |-> "card", card |-> card]

parse_csv_row(row) ==
    IF Get(row, "Name") = None THEN Raised
    ELSE IF Strip(Get(row, "Name")) = <<>> THEN ReturnedNone
    ELSE IF Get(row, "Collector Number") = None THEN Raised
    ELSE IF Strip(Get(row, "Collector Number")) = <<>> THEN ReturnedNone
    ELSE IF \E key \in StrippedColumns : Get(row, key) = None THEN Raised
    ELSE Returned(card_data(row))

(* ----------------------------- load_images ---------------------------- *)

\* f"https://riftdecks.com{image_url}" when image_url starts with '/'
absolute_url(image_url) ==
    IF StartsWithAt(image_url, 1, <<"/">>)
    THEN <<"h", "t", "t", "p", "s", ":", "/", "/", "r", "i", "f", "t", "d", "e", "c", "k", "s", ".", "c", "o", "m">> \o image_url
    ELSE image_url

\* one pass of the loop over the image rows does not raise
image_row_ok(row) == Get(row, "Name") # None /\ Get(row, "Card Image URL") # None

\* images_after with the first row of a name winning
images_after_first_wins(imgs, row) ==
    LET name == Strip(Get(row, "Name"))
        image_url == Strip(Get(row, "Card Image URL"))
    IN  IF name # <<>> /\ image_url # <<>>
        THEN imgs @@ (name :> absolute_url(image_url))
        ELSE imgs

\* the dict images after one pass of the loop: images[name] = image_url
images_after(imgs, row) ==
    LET name == Strip(Get(row, "Name"))
        image_url == Strip(Get(row, "Card Image URL"))
    IN  IF name # <<>> /\ image_url # <<>>
        THEN (name :> absolute_url(image_url)) @@ imgs
        ELSE imgs

(* -------------------------------- main -------------------------------- *)

\* card['image_url'] = images[card['name']] when the name is a key
with_image(card, imgs) ==
    IF card.name \in DOMAIN imgs
    THEN card @@ [image_url |-> imgs[card.name]]
    ELSE card

\* cards_after with the record put in front
cards_after_prepending(cs, result, imgs) ==
    IF result.kind = "card" THEN <<with_image(result.card, imgs)>> \o cs ELSE cs

\* the list cards after one pass of the loop over the rows
cards_after(cs, result, imgs) ==
    IF result.kind = "card" THEN Append(cs, with_image(result.card, imgs)) ELSE cs

(* ------------------------------- inputs ------------------------------- *)

\* the recognized columns of the primary CSV
Columns ==
    {"Name", "Collector Number", "Domain 1", "Domain 2"} \cup StrippedColumns

\* a full-width row of empty cells
BlankRow == [key \in Columns |-> <<>>]

\* a row that passes the required-field gate, every other cell empty
ValidRow == [BlankRow EXCEPT !["Name"] = <<"A">>, !["Collector Number"] = <<"1">>]

\* a row with every optional cell filled
FullRow ==
    [ValidRow EXCEPT !["Domain 1"] = <<"f", "u", "r", "y">>, !["Domain 2"] = <<" ", "N", "a", "N">>,
                     !["types"] = <<"U", "n", "i", "t">>, !["Subtype 1"] = <<"E", "l", "f">>,
                     !["Subtype 3"] = <<"n", "a", "n">>, !["supertypes"] = <<" ", "B", "a", "s", "i", "c">>,
                     !["Energy"] = <<"3">>, !["Might"] = <<"-">>, !["Power"] = <<"c", "C">>,
                     !["Description"] = <<"[", "A", "s", "s", "a", "u", "l", "t", " ", "2", "]", " ", "(", "F", "u", "r", "y">>,
                     !["Rarity"] = <<"R", "a", "r", "e", " ">>, !["Tags"] = <<"a", ",", " ", "b">>]

\* a row shorter than the header: the reader fills the cells it lacks with None
ShortRow ==
    [key \in Columns |->
        IF key = "Name" THEN <<"A">>
        ELSE IF key = "Collector Number" THEN <<"5">>
        ELSE None]

\* a row of a file whose header has only the two required columns
NarrowRow == ("Name" :> <<"C">>) @@ ("Collector Number" :> <<"6">>)

\* the rows the reader of the primary CSV hands to main
PrimaryRowInputs ==
    { FullRow,
      [BlankRow EXCEPT !["Name"] = <<" ", "B", " ">>, !["Collector Number"] = <<"2">>],
      [ValidRow EXCEPT !["Name"] = <<" ">>],
      [ValidRow EXCEPT !["Collector Number"] = <<>>],
      ShortRow,
      NarrowRow }

ImageRow(name, url) == ("Name" :> name) @@ ("Card Image URL" :> url)

\* the rows the reader of the image CSV hands to load_images
ImageRowInputs ==
    { ImageRow(<<"A">>, <<"/", "x">>),
      ImageRow(<<" ", "A">>, <<"y", " ">>),
      ImageRow(<<"B">>, <<"/", "x">>),
      ImageRow(<<>>, <<"/", "z">>),
      ImageRow(<<"A">>, <<" ">>),
      ImageRow(<<"A">>, None) }

PowerAlphabet == {"C", "c", "3", "-", "X", " "}

StatAlphabet == {"3", "0", "-", "x"}

DomainAlphabet == {"n", "a", "N", " "}

DomainSamples ==
    { None, <<>>, <<"n", "a", "n">>, <<" ", "N", "A", "N", " ">>, <<"f", "i", "r", "e">>, <<"w", "A", "T", "E", "R">>, <<"c", "o", "l", "o", "r", "l", "e", "s", "s">> }

DomainValues == DomainSamples \cup StringsUpTo(DomainAlphabet, MaxFieldLen)

TagsAlphabet == {",", " ", "a", "N"}

SupertypeSamples == { <<>>, <<" ">>, <<"N", "a", "N">>, <<" ", "B", "a", "s", "i", "c", " ">> }

\* the rows parse_csv_row is called with on its own
RowInputs ==
    {[ValidRow EXCEPT !["Power"] = s] : s \in StringsUpTo(PowerAlphabet, MaxFieldLen)}
    \cup {[ValidRow EXCEPT !["Energy"] = s, !["Might"] = s] :
             s \in StringsUpTo(StatAlphabet, MaxFieldLen)}
    \cup {[ValidRow EXCEPT !["Domain 1"] = a, !["Domain 2"] = b] :
             a \in DomainValues, b \in DomainSamples}
    \cup {[ValidRow EXCEPT !["Domain 1"] = a, !["Domain 2"] = b] :
             a \in DomainSamples, b \in DomainValues}
    \cup {[ValidRow EXCEPT !["Tags"] = s, !["supertypes"] = u] :
             s \in StringsUpTo(TagsAlphabet, MaxFieldLen), u \in SupertypeSamples}
    \cup {[ValidRow EXCEPT ![key] = None] : key \in Columns}
    \cup PrimaryRowInputs

\* the pieces rules texts are made of
TextTokens ==
    { <<"[", "A", "s", "s", "a", "u", "l", "t", "]">>, <<"[", "A", "s", "s", "a", "u", "l", "t", " ", "2", "]">>, <<"[", "Q", "u", "i", "c", "k", " ", "A", "t", "t", "a", "c", "k", "]">>, <<"[", "a", "s", "s", "a", "u", "l", "t", " ", "3", "]">>,
      <<"(", "F", "u", "r", "y", " ", "2", ")">>, <<"[", " ", "]">>, <<" ", "d", "e", "a", "l", "s", " ", "2", " ", "t", "o", " ", "a", " ", "s", "t", "u", "n", "n", "e", "d", " ", "u", "n", "i", "t", ".", " ">>, <<"[", "T", "o", "u", "g", "h", " ", " ", "1", " ", "]">> }

RECURSIVE TextsOf(_)
TextsOf(n) ==
    IF n = 0 THEN {<<>>}
    ELSE LET shorter == TextsOf(n - 1)
         IN  shorter \cup {t \o token : t \in shorter, token \in TextTokens}

\* the rules texts extract_keywords is called with on its own
TextInputs == TextsOf(MaxSpans)

(* ------------------------ the run of main ----------------------------- *)

NoOutput == [opened |-> FALSE, dumped |-> FALSE, array |-> <<>>]

Pending == [kind |-> "pending"]

Init ==
    /\ pc = "start"
    /\ err = "none"
    /\ images = <<>>
    /\ imgRead = <<>>
    /\ rowsRead = <<>>
    /\ cards = <<>>
    /\ output = NoOutput
    /\ arg = <<>>
    /\ ret = Pending

\* an exception or an I/O error propagates out of main
Abort(why) ==
    /\ pc' = "aborted"
    /\ err' = why

\* load_images: open(image_csv_path) succeeds
OpenImages ==
    /\ pc = "start"
    /\ pc' = "load_images"
    /\ UNCHANGED <<err, images, imgRead, rowsRead, cards, output, arg, ret>>

\* load_images: open(image_csv_path) raises (file not found)
OpenImagesFails ==
    /\ pc = "start"
    /\ Abort("images_io")
    /\ UNCHANGED <<images, imgRead, rowsRead, cards, output, arg, ret>>

\* load_images: one pass of the loop over the image rows
LoadImageRow ==
    /\ pc = "load_images"
    /\ Len(imgRead) < MaxImageRows
    /\ \E row \in ImageRowInputs :
          /\ imgRead' = Append(imgRead, row)
          /\ IF image_row_ok(row)
             THEN /\ images' = images_after(images, row)
                  /\ UNCHANGED <<pc, err>>
             ELSE /\ Abort("exception")
                  /\ UNCHANGED images
    /\ UNCHANGED <<rowsRead, cards, output, arg, ret>>

\* load_images: reading the next image row fails
ImagesReadFails ==
    /\ pc = "load_images"
    /\ Abort("images_io")
    /\ UNCHANGED <<images, imgRead, rowsRead, cards, output, arg, ret>>

\* load_images returns: the reader is exhausted
ImagesEOF ==
    /\ pc = "load_images"
    /\ pc' = "open_csv"
    /\ UNCHANGED <<err, images, imgRead, rowsRead, cards, output, arg, ret>>

\* OpenCsv with the output file opened for writing around the reading loop
OpenCsvAndOutput ==
    /\ pc = "open_csv"
    /\ pc' = "parse"
    /\ output' = [opened |-> TRUE, dumped |-> FALSE, array |-> <<>>]
    /\ UNCHANGED <<err, images, imgRead, rowsRead, cards, arg, ret>>

\* main: open(csv_path) succeeds
OpenCsv ==
    /\ pc = "open_csv"
    /\ pc' = "parse"
    /\ UNCHANGED <<err, images, imgRead, rowsRead, cards, output, arg, ret>>

\* main: open(csv_path) raises
OpenCsvFails ==
    /\ pc = "open_csv"
    /\ Abort("csv_io")
    /\ UNCHANGED <<images, imgRead, rowsRead, cards, output, arg, ret>>

\* parse_csv_row on the rows main hands it, computed once per row
ParsedPrimary == [row \in PrimaryRowInputs |-> parse_csv_row(row)]

\* main: one pass of the loop over the primary rows
ParseRow ==
    /\ pc = "parse"
    /\ Len(rowsRead) < MaxRows
    /\ \E row \in PrimaryRowInputs :
          /\ rowsRead' = Append(rowsRead, row)
          /\ arg' = row
          /\ ret' = ParsedPrimary[row]
          /\ IF ParsedPrimary[row].kind = "raise"
             THEN /\ Abort("exception")
                  /\ UNCHANGED cards
             ELSE /\ cards' = cards_after(cards, ParsedPrimary[row], images)
                  /\ UNCHANGED <<pc, err>>
    /\ UNCHANGED <<images, imgRead, output>>

\* main: reading the next primary row fails
CsvReadFails ==
    /\ pc = "parse"
    /\ Abort("csv_io")
    /\ UNCHANGED <<images, imgRead, rowsRead, cards, output, arg, ret>>

\* main: the reader is exhausted, the with block ends
CsvEOF ==
    /\ pc = "parse"
    /\ pc' = "open_output"
    /\ UNCHANGED <<err, images, imgRead, rowsRead, cards, output, arg, ret>>

\* main: open(output_path, 'w') succeeds and truncates the file
OpenOutput ==
    /\ pc = "open_output"
    /\ pc' = "dump"
    /\ output' = [opened |-> TRUE, dumped |-> FALSE, array |-> <<>>]
    /\ UNCHANGED <<err, images, imgRead, rowsRead, cards, arg, ret>>

\* main: open(output_path, 'w') raises
OpenOutputFails ==
    /\ pc = "open_output"
    /\ Abort("output_io")
    /\ UNCHANGED <<images, imgRead, rowsRead, cards, output, arg, ret>>

\* main: json.dump(cards, f), then the printed summaries
Dump ==
    /\ pc = "dump"
    /\ pc' = "done"
    /\ output' = [opened |-> TRUE, dumped |-> TRUE, array |-> cards]
    /\ UNCHANGED <<err, images, imgRead, rowsRead, cards, arg, ret>>

Next ==
    \/ OpenImages
    \/ OpenImagesFails
    \/ LoadImageRow
    \/ ImagesReadFails
    \/ ImagesEOF
    \/ OpenCsv
    \/ OpenCsvFails
    \/ ParseRow
    \/ CsvReadFails
    \/ CsvEOF
    \/ OpenOutput
    \/ OpenOutputFails
    \/ Dump

Spec == Init /\ [][Next]_vars

(* ------------------- parse_csv_row called on its own ------------------ *)

InitRow ==
    /\ pc = "call"
    /\ err = "none"
    /\ images = <<>>
    /\ imgRead = <<>>
    /\ rowsRead = <<>>
    /\ cards = <<>>
    /\ output = NoOutput
    /\ arg \in RowInputs
    /\ ret = Pending

CallParseCsvRow ==
    /\ pc = "call"
    /\ pc' = "returned"
    /\ ret' = parse_csv_row(arg)
    /\ UNCHANGED <<err, images, imgRead, rowsRead, cards, output, arg>>

NextRow == CallParseCsvRow

SpecRow == InitRow /\ [][NextRow]_vars

(* ----------------- extract_keywords called on its own ----------------- *)

InitKeywords ==
    /\ pc = "call"
    /\ err = "none"
    /\ images = <<>>
    /\ imgRead = <<>>
    /\ rowsRead = <<>>
    /\ cards = <<>>
    /\ output = NoOutput
    /\ arg \in TextInputs
    /\ ret = Pending

CallExtractKeywords ==
    /\ pc = "call"
    /\ pc' = "returned"
    /\ ret' = [kind |-> "keywords", keywords |-> extract_keywords(arg)]
    /\ UNCHANGED <<err, images, imgRead, rowsRead, cards, output, arg>>

NextKeywords == CallExtractKeywords

SpecKeywords == InitKeywords /\ [][NextKeywords]_vars

(* ============================== claims ================================ *)

\* the cell is there and is not blank after trimming
NonBlank(row, key) == Get(row, key) # None /\ Strip(Get(row, key)) # <<>>

\* the cell has no value at all, or is blank after trimming
Blank(row, key) == ~NonBlank(row, key)

(* C1: every row handed to parse_csv_row yields exactly one record when Name
   and Collector Number are both non-blank after trimming and no record when
   either is blank, and every record in the list cards has a non-empty id and
   a non-empty name. *)
RowGateExactlyOne ==
    /\ rowsRead # <<>> =>
          /\ (NonBlank(arg, "Name") /\ NonBlank(arg, "Collector Number"))
                => ret.kind = "card"
          /\ (Blank(arg, "Name") \/ Blank(arg, "Collector Number"))
                => ret.kind = "None"
    /\ \A i \in 1..Len(cards) : cards[i].id # <<>> /\ cards[i].name # <<>>

\* the records main keeps for rows, in row order, each joined with its image
RECURSIVE ExpectedCards(_, _)
ExpectedCards(rows, imgs) ==
    IF rows = <<>> THEN <<>>
    ELSE LET result == ParsedPrimary[Head(rows)]
             rest == ExpectedCards(Tail(rows), imgs)
         IN  IF result.kind = "card"
             THEN <<with_image(result.card, imgs)>> \o rest
             ELSE rest

\* the rows of rows that are not skipped
NonSkipped(rows) == {i \in 1..Len(rows) : ParsedPrimary[rows[i]].kind = "card"}

(* C2: after any prefix of the primary rows, cards is exactly the records of
   the non-skipped rows of that prefix in row order, and the array written at
   the end has one element per non-skipped row, none reordered, duplicated or
   dropped. *)
CardsFollowRowOrder ==
    /\ cards = ExpectedCards(rowsRead, images)
    /\ Len(cards) = Cardinality(NonSkipped(rowsRead))
    /\ output.dumped =>
          /\ output.array = ExpectedCards(rowsRead, images)
          /\ Len(output.array) = Cardinality(NonSkipped(rowsRead))

\* a run that read a skipped row and a kept row and wrote the one record
CardsFollowRowOrderWitness ==
    /\ pc = "done"
    /\ Len(rowsRead) = 2
    /\ Cardinality(NonSkipped(rowsRead)) = 1
    /\ Len(output.array) = 1

(* C3: the list extract_keywords returns holds no string at two positions. *)
KeywordsNoDuplicates ==
    (pc = "returned" /\ ret.kind = "keywords") =>
        \A i \in 1..Len(ret.keywords) : \A j \in 1..Len(ret.keywords) :
            i # j => ret.keywords[i] # ret.keywords[j]

\* list without its repeated entries, first occurrences kept in order
RECURSIVE FirstSeen(_, _)
FirstSeen(list, seen) ==
    IF list = <<>> THEN seen
    ELSE FirstSeen(Tail(list),
                   IF InList(Head(list), seen) THEN seen ELSE Append(seen, Head(list)))

\* the trimmed, non-empty inner texts of the bracketed spans of text
RECURSIVE TrimmedSpans(_)
TrimmedSpans(matches) ==
    IF matches = <<>> THEN <<>>
    ELSE (IF Strip(Head(matches)) # <<>> THEN <<Strip(Head(matches))>> ELSE <<>>)
         \o TrimmedSpans(Tail(matches))

(* C4: step 1 deduplicates bracketed spans by exact match on the full
   bracketed text: every span whose text is not yet in the list is appended,
   so the list starts with the distinct bracketed texts in first-seen order
   ("Assault" and "Assault 2" both, in either order). *)
BracketDedupIsExact ==
    (pc = "returned" /\ ret.kind = "keywords") =>
        LET spans == FirstSeen(TrimmedSpans(bracket_matches(arg, 1)), <<>>)
        IN  /\ Len(spans) <= Len(ret.keywords)
            /\ SubSeq(ret.keywords, 1, Len(spans)) = spans

\* s has no upper-case letter
IsLowerCase(s) == \A i \in 1..Len(s) : IndexIn(s[i], UpperLetters) = 0

(* C5: in every emitted record an optional field is absent or non-empty:
   supertypes, when present, is a non-empty lower-case string; tags, when
   present, is a non-empty list of non-empty trimmed strings; the three stats
   and rules_text are always present. *)
OptionalFieldsNonEmpty ==
    (pc = "returned" /\ ret.kind = "card") =>
        LET card == ret.card
        IN  /\ "supertypes" \in DOMAIN card =>
                  card.supertypes # <<>> /\ IsLowerCase(card.supertypes)
            /\ "tags" \in DOMAIN card =>
                  /\ card.tags # <<>>
                  /\ \A i \in 1..Len(card.tags) :
                        card.tags[i] # <<>> /\ Strip(card.tags[i]) = card.tags[i]
            /\ DOMAIN card.stats = {"energy", "might", "power"}
            /\ "rules_text" \in DOMAIN card

\* the image rows read so far that name `name` and carry a URL
RowsNaming(name) ==
    {i \in 1..Len(imgRead) :
        /\ image_row_ok(imgRead[i])
        /\ Strip(Get(imgRead[i], "Name")) = name
        /\ Strip(Get(imgRead[i], "Card Image URL")) # <<>>}

\* the names the image rows read so far give a URL for
NamesWithUrl ==
    {Strip(Get(imgRead[i], "Name")) : i \in {j \in 1..Len(imgRead) : image_row_ok(imgRead[j])}}
    \ {<<>>}

\* the URL of the last image row naming `name`, made absolute
LastUrl(name) ==
    LET url == Strip(Get(imgRead[SetMax(RowsNaming(name))], "Card Image URL"))
    IN  IF url[1] = "/" THEN <<"h", "t", "t", "p", "s", ":", "/", "/", "r", "i", "f", "t", "d", "e", "c", "k", "s", ".", "c", "o", "m">> \o url ELSE url

(* C6: a record has image_url exactly when its name is a key of the image
   index, and then it is the index's value, which is the URL of the last image
   row with that trimmed name and a non-empty URL, prefixed with
   https://riftdecks.com when it starts with "/"; rows with an empty name or
   URL add nothing. *)
ImageUrlIsLastRowForName ==
    /\ DOMAIN images = {name \in NamesWithUrl : RowsNaming(name) # {}}
    /\ \A name \in DOMAIN images : images[name] = LastUrl(name)
    /\ \A i \in 1..Len(cards) :
          /\ "image_url" \in DOMAIN cards[i] <=> cards[i].name \in DOMAIN images
          /\ cards[i].name \in DOMAIN images =>
                cards[i].image_url = images[cards[i].name]

\* a record joined with the URL of the second of two image rows for its name
ImageUrlWitness ==
    /\ Len(imgRead) = 2
    /\ Cardinality(RowsNaming(<<"A">>)) = 2
    /\ \E i \in 1..Len(cards) :
          /\ cards[i].name = <<"A">>
          /\ "image_url" \in DOMAIN cards[i]
          /\ cards[i].image_url = <<"y">>
    /\ \E i \in 1..Len(cards) : "image_url" \notin DOMAIN cards[i]

(* C7: the output file is opened only after the image index is built and
   every primary row is transformed and joined; a run that aborts on an I/O
   failure while reading either input never opens or writes the output. *)
OutputOpenedLast ==
    /\ (output.opened \/ output.dumped) =>
          /\ pc \in {"dump", "done"}
          /\ err = "none"
          /\ Len(cards) = Cardinality(NonSkipped(rowsRead))
    /\ err \in {"images_io", "csv_io"} => output = NoOutput

\* a run that fails reading the primary CSV after it has kept a record
OutputOpenedLastWitness ==
    /\ pc = "aborted"
    /\ err = "csv_io"
    /\ cards # <<>>
    /\ output = NoOutput

\* p.upper() is one or more 'C'
OnlyCs(p) == p # <<>> /\ \A i \in 1..Len(p) : p[i] \in {"C", "c"}

(* C8: Power blank or "-" gives an absent stats.power; a value that is only
   'C's once upper-cased gives that upper-case string; any other value that
   parses as a number gives the number; any other value gives the trimmed
   string unchanged. *)
PowerOutcomes ==
    (pc = "returned" /\ ret.kind = "card") =>
        LET p == Strip(Get(arg, "Power"))
            v == ret.card.stats.power
        IN  IF p = <<>> \/ p = <<"-">> THEN v = PyNone
            ELSE IF OnlyCs(p) THEN v = PyStr([i \in 1..Len(p) |-> "C"])
            ELSE IF FloatParses(p) THEN v = PyFloat(FloatValue(p))
            ELSE v = PyStr(p)

\* a mixed-case run of c's, padded, came out as the upper-case string
PowerOutcomesWitness ==
    /\ pc = "returned"
    /\ ret.kind = "card"
    /\ Get(arg, "Power") = <<" ", "c", "C">>
    /\ ret.card.stats.power = PyStr(<<"C", "C">>)

\* the domain cell is absent: no value, blank after trimming, or "nan"
DomainAbsent(row, key) ==
    \/ Blank(row, key)
    \/ Lower(Strip(Get(row, key))) = <<"n", "a", "n">>

\* the present domains, capitalized, Domain 1 first
PresentDomains(row) ==
    (IF DomainAbsent(row, "Domain 1") THEN <<>>
     ELSE <<Capitalize(Strip(Get(row, "Domain 1")))>>)
    \o (IF DomainAbsent(row, "Domain 2") THEN <<>>
        ELSE <<Capitalize(Strip(Get(row, "Domain 2")))>>)

(* C9 as stated: domain is never empty, is "Colorless" if and only if both
   domains are absent, and is otherwise the present domains capitalized and
   joined with ", ". *)
DomainColorlessIffAbsent ==
    (pc = "returned" /\ ret.kind = "card") =>
        /\ ret.card.domain # <<>>
        /\ ret.card.domain = <<"C", "o", "l", "o", "r", "l", "e", "s", "s">> <=> PresentDomains(arg) = <<>>
        /\ PresentDomains(arg) # <<>> =>
              ret.card.domain = Join(<<",", " ">>, PresentDomains(arg))

(* C9 as amended: domain is never empty, is "Colorless" if both domains are
   absent, and is otherwise the present domains capitalized and joined with
   ", " in Domain-1-then-Domain-2 order; it is "Colorless" with a domain
   present only when that one present domain is itself "Colorless". *)
DomainDerivation ==
    (pc = "returned" /\ ret.kind = "card") =>
        /\ ret.card.domain # <<>>
        /\ PresentDomains(arg) = <<>> => ret.card.domain = <<"C", "o", "l", "o", "r", "l", "e", "s", "s">>
        /\ PresentDomains(arg) # <<>> =>
              ret.card.domain = Join(<<",", " ">>, PresentDomains(arg))
        /\ ret.card.domain = <<"C", "o", "l", "o", "r", "l", "e", "s", "s">> =>
              PresentDomains(arg) \in {<<>>, <<<<"C", "o", "l", "o", "r", "l", "e", "s", "s">>>>}

\* two present domains in mixed case came out capitalized and joined in order
DomainDerivationWitness ==
    /\ pc = "returned"
    /\ ret.kind = "card"
    /\ Get(arg, "Domain 1") = <<"w", "A", "T", "E", "R">>
    /\ Get(arg, "Domain 2") = <<"f", "i", "r", "e">>
    /\ ret.card.domain = <<"W", "a", "t", "e", "r", ",", " ", "F", "i", "r", "e">>

(* C10: no exception escapes parse_csv_row: every call main makes ends by
   returning a record or None. *)
NoExceptionEscapes ==
    rowsRead # <<>> => ret.kind \in {"card", "None"}

====
